---- MODULE Spec2Model ----
(***************************************************************************)
(* SIEAdmin: the CPU priority governor (cpu.py, PrioritiyScheduler) and    *)
(* the disk usage monitor (disk.py, DiskUsageMonitor), over the process    *)
(* snapshot of core/system.py and the helpers of utils.py.                 *)
(*                                                                         *)
(* Percentages (cpu, mem) and loads are whole numbers; the arithmetic of   *)
(* the fair-share scheduler is done on exact fractions.                    *)
(***************************************************************************)
EXTENDS Integers, Sequences, FiniteSets, TLC

\* ---------------------------------------------------------------- bounds
NProc == 4
MaxInterval == 2
MaxArg == 3
MaxX == 200
MaxStep == 50

\* ------------------------------------------------------ program constants
cpu_intervene == 20
ram_intervene == 40
MinCpu == 10
RoundStep == 100
NiceMax == 19

\* ------------------------------------------------------------ environment
Pids == 1..NProc

\* owner of a process as `ps axo pid,user:20` reports it
Owner(p) ==
  CASE p % 4 = 1 -> "alice"
    [] p % 4 = 2 -> "alice"
    [] p % 4 = 3 -> "bob"
    [] OTHER     -> "daemon"

\* command name of a process as top reports it
Command(p) ==
  CASE p % 4 = 1 -> "python"
    [] p % 4 = 2 -> "bash"
    [] p % 4 = 3 -> "python"
    [] OTHER     -> "sshd"

\* os.listdir('/home') in the order it is iterated
HomeOrder == <<"alice", "bob", ".cache">>

\* os.listdir('/home') as the set `ps.user in valid_users` tests
HomeDirs == {HomeOrder[i] : i \in DOMAIN HomeOrder}

\* one row of the process listing: cpu and mem as top prints them, and whether
\* the pid is also in the pid -> user listing of ps
RawRows ==
  {[cpu |-> 5,  mem |-> 20, inps |-> TRUE],
   [cpu |-> 10, mem |-> 20, inps |-> TRUE],
   [cpu |-> 40, mem |-> 45, inps |-> TRUE],
   [cpu |-> 40, mem |-> 20, inps |-> FALSE]}

Listings == [Pids -> RawRows]

\* the 1-minute load that uptime may report
Loads == {cpu_intervene - 1, cpu_intervene, cpu_intervene + 1}

\* ---------------------------------------------------------------- helpers
RECURSIVE SumOver(_, _)
SumOver(f, S) ==
  IF S = {} THEN 0
  ELSE LET x == CHOOSE y \in S : TRUE IN f[x] + SumOver(f, S \ {x})

MinOf(S) == CHOOSE x \in S : \A y \in S : x <= y
MaxOf(S) == CHOOSE x \in S : \A y \in S : y <= x

\* the pids of S in ascending order
RECURSIVE SortedSeq(_)
SortedSeq(S) ==
  IF S = {} THEN <<>>
  ELSE LET m == MinOf(S) IN <<m>> \o SortedSeq(S \ {m})

RECURSIVE SeqToSet(_)
SeqToSet(s) == IF s = <<>> THEN {} ELSE {Head(s)} \cup SeqToSet(Tail(s))

\* round() with ties going up
PyRoundHalfUp(n, d) ==
  LET q == n \div d
      r == n % d
  IN  IF 2 * r < d THEN q ELSE q + 1

\* Python 3 round() of the non-negative fraction n/d: ties go to the even
\* integer
PyRound(n, d) ==
  LET q == n \div d
      r == n % d
  IN  IF 2 * r < d THEN q
      ELSE IF 2 * r > d THEN q + 1
      ELSE IF q % 2 = 0 THEN q ELSE q + 1

\* -------------------------------------------------------- core/system.py
\* valid_process_state without the test of state.cpu
valid_process_state_any_cpu(row) == row.inps

valid_process_state(row) ==
  IF ~row.inps THEN FALSE
  ELSE IF row.cpu < MinCpu THEN FALSE
  ELSE TRUE

\* SystemStatus.process_states: the rows of the listing that are valid, by pid
process_states(listing) ==
  LET keep == {p \in Pids : valid_process_state(listing[p])}
  IN  [p \in keep |-> [cpu |-> listing[p].cpu, mem |-> listing[p].mem,
                        user |-> Owner(p)]]

\* get_uid: the numeric uid of a user name
get_uid(u) ==
  CASE u = "alice"  -> 1001
    [] u = "bob"    -> 1002
    [] OTHER        -> 1

\* ---------------------------------------------------- cpu.py: the policies
\* the names getattr(self, name, None) finds on a PrioritiyScheduler
SchedulerNames ==
  {"user_cpu_fair_scheduler", "user_ram_penalty_scheduler",
   "cpu_ram_hybrid_scheduler", "none_scheduler"}

Attributes == SchedulerNames \cup {"load_stats", "run", "interval"}

\* the scheduler names a command line may carry
ConfiguredNames == SchedulerNames \cup {"load_stats", "fifo_scheduler"}

\* PrioritiyScheduler.__init__: getattr(self, scheduler, None) is None
NoSuchScheduler(name) == name \notin Attributes

\* load_stats without the test `ps.user in valid_users`
load_stats_all_users(listing) == process_states(listing)

\* PrioritiyScheduler.load_stats: the valid rows owned by a /home user
load_stats(listing) ==
  LET ps == process_states(listing)
      keep == {p \in DOMAIN ps : ps[p].user \in HomeDirs}
  IN  [p \in keep |-> ps[p]]

StatUsers(st) == {Owner(p) : p \in DOMAIN st}
ProcsOf(st, u) == {p \in DOMAIN st : Owner(p) = u}
user_processes_cnt(st, u) == Cardinality(ProcsOf(st, u))

\* PrioritiyScheduler.__renice: the command it launches
renice_pid(p, pri) == [kind |-> "pid", target |-> p, pri |-> pri]
renice_uid(uid, pri) == [kind |-> "uid", target |-> uid, pri |-> pri]

\* round_by(x, round_step) for x = n/d
round_by(n, d, step) == PyRound(n, d * step) * step

\* process_ni = round_by(total_process_weight / p.cpu, 100) or 1
process_ni(st, p) ==
  LET cpus == [q \in DOMAIN st |-> st[q].cpu]
      total == SumOver(cpus, ProcsOf(st, Owner(p)))
      r == round_by(total, st[p].cpu, RoundStep)
  IN  IF r = 0 THEN 1 ELSE r

min_user_processes(st) ==
  MinOf({user_processes_cnt(st, u) : u \in StatUsers(st)})

\* priorities[p.pid] with user_ni left out
raw_priority_no_user_weight(st, p) == process_ni(st, p) * min_user_processes(st)

\* priorities[p.pid] = process_ni * user_ni, as the numerator of a fraction
\* over min_user_processes
raw_priority(st, p) == process_ni(st, p) * user_processes_cnt(st, Owner(p))

\* build_rescaler(src_min, src_max, tar_min, tar_max)(x): the value returned,
\* as the fraction num/den
rescaler(smin, smax, tmin, tmax, x) ==
  IF smin = smax THEN [num |-> 0, den |-> 1]
  ELSE [num |-> (tmax - tmin) * (x - smin) + tmin * (smax - smin),
        den |-> smax - smin]

\* build_rescaler(src_min, src_max, tar_min, tar_max)(x) followed by round(),
\* for src_min = smin/d, src_max = smax/d, x = n/d (d cancels)
rescale_round(smin, smax, tmin, tmax, n) ==
  LET r == rescaler(smin, smax, tmin, tmax, n) IN PyRound(r.num, r.den)

\* the priority of pid p without the rescaler
fair_priority_unscaled(st, p) == raw_priority(st, p)

\* the niceness of pid p with the target range turned round
fair_priority_inverted(st, p) ==
  LET m == min_user_processes(st)
      hi == MaxOf({raw_priority(st, q) : q \in DOMAIN st})
  IN  NiceMax - rescale_round(m, hi, 0, NiceMax, raw_priority(st, p))

\* the niceness user_cpu_fair_scheduler gives pid p
fair_priority(st, p) ==
  LET m == min_user_processes(st)
      hi == MaxOf({raw_priority(st, q) : q \in DOMAIN st})
  IN  rescale_round(m, hi, 0, NiceMax, raw_priority(st, p))

RECURSIVE FairCmds(_, _)
FairCmds(st, pids) ==
  IF pids = <<>> THEN <<>>
  ELSE <<renice_pid(Head(pids), fair_priority(st, Head(pids)))>>
         \o FairCmds(st, Tail(pids))

\* user_cpu_fair_scheduler: min() of no counts raises ValueError
user_cpu_fair_scheduler(st) ==
  IF DOMAIN st = {} THEN [raises |-> TRUE, cmds |-> <<>>]
  ELSE [raises |-> FALSE, cmds |-> FairCmds(st, SortedSeq(DOMAIN st))]

user_ram(st, u) ==
  LET mems == [q \in DOMAIN st |-> st[q].mem] IN SumOver(mems, ProcsOf(st, u))

\* the comparison `ram > self.ram_intervene` written as `>=`
RamExceedsOrEqual(ram) == ram >= ram_intervene

\* user_ram_penalty_scheduler: `ram > self.ram_intervene`
RamExceeds(ram) == ram > ram_intervene

\* the users in the order the processes dict holds them
UserOrder == <<"alice", "bob", "daemon">>

RECURSIVE RamCmds(_, _)
RamCmds(st, users) ==
  IF users = <<>> THEN <<>>
  ELSE (IF Head(users) \in StatUsers(st) /\ RamExceeds(user_ram(st, Head(users)))
        THEN <<renice_uid(get_uid(Head(users)), NiceMax)>> ELSE <<>>)
         \o RamCmds(st, Tail(users))

user_ram_penalty_scheduler(st) ==
  [raises |-> FALSE, cmds |-> RamCmds(st, UserOrder)]

cpu_ram_hybrid_scheduler(st) ==
  LET fair == user_cpu_fair_scheduler(st)
  IN  IF fair.raises THEN fair
      ELSE [raises |-> FALSE,
            cmds |-> fair.cmds \o user_ram_penalty_scheduler(st).cmds]

RECURSIVE NoneCmds(_)
NoneCmds(pids) ==
  IF pids = <<>> THEN <<>>
  ELSE <<renice_pid(Head(pids), 0)>> \o NoneCmds(Tail(pids))

none_scheduler(st) ==
  [raises |-> FALSE, cmds |-> NoneCmds(SortedSeq(DOMAIN st))]

\* self.scheduler(*stats): an attribute that is no scheduler raises TypeError
call_scheduler(name, st) ==
  CASE name = "user_cpu_fair_scheduler"    -> user_cpu_fair_scheduler(st)
    [] name = "user_ram_penalty_scheduler" -> user_ram_penalty_scheduler(st)
    [] name = "cpu_ram_hybrid_scheduler"   -> cpu_ram_hybrid_scheduler(st)
    [] name = "none_scheduler"             -> none_scheduler(st)
    [] OTHER                               -> [raises |-> TRUE, cmds |-> <<>>]

\* ------------------------------------------------------------------ state
VARIABLES
  pc,          \* where PrioritiyScheduler is: New, Idle, Sampling, Deciding,
               \* Enforcing, Sleeping, InSleep, ShuttingDown, Stopped,
               \* Crashed, StartupFailed
  scheduler,   \* self.scheduler (the configured name)
  interval,    \* self.interval
  exit_now,    \* self.__exit_now
  exited,      \* self.__exited
  load,        \* load_1m of the current cycle
  stats,       \* the stats of the last load_stats()
  tick,        \* the loop variable of `for _ in range(int(self.interval))`
  ni,          \* the niceness of every process (the OS process table)
  alive,       \* the processes that exist
  inflight,    \* commands os.popen has launched and that have not finished
  cmdlog,      \* the commands launched since the cycle (or restore) began
  exc,         \* the exception the except clause of run caught
  restored,    \* the restore pass of run has been completed
  sigState,    \* where run was when SIGTERM first arrived
  flagAtTop,   \* __exit_now as it was when the current cycle began
  sampled,     \* the current cycle has read the system load
  snaps,       \* snapshots collected in the current cycle
  policyRuns,  \* invocations of self.scheduler in the current cycle
  dpc,         \* where DiskUsageMonitor is
  quota_bytes, \* self.quota_bytes
  dinterval,   \* self.interval of the monitor
  disk_usage,  \* the disk_usage of the last load_usage()
  dtodo,       \* the users kill_quota_exceeded_processes has still to visit
  downed,      \* the listed processes of the users found over quota so far
               \* in the current cycle
  dtick,       \* the loop variable of the monitor's sleep loop
  dexit_now,   \* DiskUsageMonitor.__exit_now
  dexited,     \* DiskUsageMonitor.__exited
  dexc,        \* the exception the except clause of the monitor's run caught
  killlog,     \* the pids kill_quota_exceeded_processes has issued a kill for
               \* in the current cycle, in order
  quota,       \* self._quota, the user_quota string as characters
  call,        \* a call of a function of utils.py: its name and arguments
  ret          \* what that call returned

gvars == <<pc, scheduler, interval, exit_now, exited, load, stats, tick, cmdlog,
           exc, restored, sigState, flagAtTop, sampled, snaps, policyRuns>>
dvars == <<dpc, quota_bytes, dinterval, disk_usage, dtodo, downed, dtick, dexit_now,
           dexited, dexc, killlog, quota>>
uvars == <<call, ret>>
osvars == <<ni, alive, inflight>>
vars == <<gvars, dvars, osvars, uvars>>

NoStats == [p \in {} |-> 0]

\* the listings the collector can read: a process that is gone is in no ps
\* listing, and a process top lists and ps does not has exited in between
ListingsNow == {l \in Listings : \A p \in Pids : p \notin alive => ~l[p].inps}

\* the process table after listing l was read
ProcessesExit(l) ==
  /\ alive' = {p \in alive : l[p].inps}
  /\ ni' = [p \in Pids |-> IF l[p].inps THEN ni[p] ELSE 0]

OsInit ==
  /\ ni = [p \in Pids |-> 0]
  /\ alive = Pids
  /\ inflight = {}

GovernorIdle ==
  /\ pc = "New"
  /\ scheduler = "user_cpu_fair_scheduler"
  /\ interval = 0
  /\ exit_now = FALSE
  /\ exited = FALSE
  /\ load = 0
  /\ stats = NoStats
  /\ tick = 0
  /\ cmdlog = <<>>
  /\ exc = "none"
  /\ restored = FALSE
  /\ sigState = "none"
  /\ flagAtTop = FALSE
  /\ sampled = FALSE
  /\ snaps = 0
  /\ policyRuns = 0

MonitorIdle ==
  /\ dpc = "New"
  /\ quota_bytes = 0
  /\ dinterval = 0
  /\ disk_usage = NoStats
  /\ dtodo = <<>>
  /\ downed = {}
  /\ dtick = 0
  /\ dexit_now = FALSE
  /\ dexited = FALSE
  /\ dexc = "none"
  /\ killlog = <<>>
  /\ quota = <<>>

\* no function of utils.py is being called on its own
NoCall == [fn |-> "none"]

UtilsIdle ==
  /\ call = NoCall
  /\ ret = <<>>

Init == OsInit /\ GovernorIdle /\ MonitorIdle /\ UtilsIdle

\* ------------------------------------------------ the OS runs the commands
\* a launched renice or kill finishes; commands in flight finish in any order
CommandEffect(c) ==
  CASE c.kind = "pid" ->
         /\ ni' = [p \in Pids |->
                     IF p = c.target /\ p \in alive THEN c.pri ELSE ni[p]]
         /\ alive' = alive
    [] c.kind = "uid" ->
         /\ ni' = [p \in Pids |->
                     IF get_uid(Owner(p)) = c.target /\ p \in alive
                     THEN c.pri ELSE ni[p]]
         /\ alive' = alive
    [] OTHER ->
         /\ alive' = alive \ {c.target}
         /\ ni' = [p \in Pids |-> IF p = c.target THEN 0 ELSE ni[p]]

CommandCompletes ==
  \E c \in inflight :
    /\ CommandEffect(c)
    /\ inflight' = inflight \ {c}
    /\ UNCHANGED <<gvars, dvars, uvars>>

\* ------------------------------------------------- cpu.py: the governor
\* the test of run written as `load_1m <= self.cpu_intervene`
LoadBelowOrAtIntervene(l) == l <= cpu_intervene

\* the test of run, `load_1m < self.cpu_intervene`
LoadBelowIntervene(l) == l < cpu_intervene

\* PrioritiyScheduler.__init__
Construct ==
  \E name \in ConfiguredNames, n \in 0..MaxInterval :
    /\ pc = "New"
    /\ IF NoSuchScheduler(name)
       THEN /\ pc' = "StartupFailed"
            /\ UNCHANGED <<scheduler, interval>>
       ELSE /\ pc' = "Idle"
            /\ scheduler' = name
            /\ interval' = n
    /\ UNCHANGED <<exit_now, exited, load, stats, tick, cmdlog, exc, restored,
                   sigState, flagAtTop, sampled, snaps, policyRuns>>
    /\ UNCHANGED <<dvars, uvars, osvars>>

\* the locals of a cycle are dropped: nothing reads them again
DropCycle ==
  /\ load' = 0
  /\ sampled' = FALSE
  /\ snaps' = 0
  /\ policyRuns' = 0
  /\ cmdlog' = <<>>
  /\ stats' = NoStats

\* Daemon.start() calls run(): the while loop is entered
RunBegins ==
  /\ pc = "Idle"
  /\ pc' = "Sampling"
  /\ flagAtTop' = exit_now
  /\ UNCHANGED <<scheduler, interval, exit_now, exited, load, stats, tick, cmdlog,
                 exc, restored, sigState, sampled, snaps, policyRuns>>
  /\ UNCHANGED <<dvars, uvars, osvars>>

\* PrioritiyScheduler.__exit, the SIGTERM handler
Sigterm ==
  /\ pc \in {"Sampling", "Deciding", "Enforcing", "Sleeping", "InSleep"}
  /\ ~exit_now
  /\ exit_now' = TRUE
  /\ sigState' = pc
  /\ UNCHANGED <<pc, scheduler, interval, exited, load, stats, tick, cmdlog, exc,
                 restored, flagAtTop, sampled, snaps, policyRuns>>
  /\ UNCHANGED <<dvars, uvars, osvars>>

\* run: self.ss.system_load, then the test of the load
SampleLoad ==
  /\ pc = "Sampling"
  /\ \/ \E l \in Loads :
          /\ load' = l
          /\ sampled' = TRUE
          /\ pc' = IF LoadBelowIntervene(l) THEN "Sleeping" ELSE "Deciding"
          /\ tick' = 0
          /\ exc' = exc
     \/ /\ exc' = "collection"      \* uptime's output does not parse
        /\ pc' = "ShuttingDown"
        /\ UNCHANGED <<load, sampled, tick>>
  /\ UNCHANGED <<scheduler, interval, exit_now, exited, stats, cmdlog, restored,
                 sigState, flagAtTop, snaps, policyRuns>>
  /\ UNCHANGED <<dvars, uvars, osvars>>

\* run: stats = self.load_stats(), on a host whose listings are those of L
CollectStatsOn(L) ==
  /\ pc = "Deciding"
  /\ inflight = {}
  /\ \/ \E l \in L :
          /\ stats' = load_stats(l)
          /\ snaps' = snaps + 1
          /\ pc' = "Enforcing"
          /\ exc' = exc
          /\ ProcessesExit(l)
     \/ /\ exc' = "collection"      \* a listing does not parse
        /\ pc' = "ShuttingDown"
        /\ UNCHANGED <<stats, snaps, ni, alive>>
  /\ UNCHANGED <<scheduler, interval, exit_now, exited, load, tick, cmdlog,
                 restored, sigState, flagAtTop, sampled, policyRuns>>
  /\ UNCHANGED <<dvars, uvars, inflight>>

CollectStats == CollectStatsOn(ListingsNow)

\* run: self.scheduler(*stats)
RunScheduler ==
  /\ pc = "Enforcing"
  /\ \E r \in {call_scheduler(scheduler, stats)} :
         /\ policyRuns' = policyRuns + 1
         /\ cmdlog' = cmdlog \o r.cmds
         /\ inflight' = inflight \cup SeqToSet(r.cmds)
         /\ IF r.raises
            THEN /\ exc' = "cycle"
                 /\ pc' = "ShuttingDown"
                 /\ tick' = tick
            ELSE /\ exc' = exc
                 /\ pc' = "Sleeping"
                 /\ tick' = 0
  /\ UNCHANGED <<scheduler, interval, exit_now, exited, load, stats, restored,
                 sigState, flagAtTop, sampled, snaps>>
  /\ UNCHANGED <<dvars, uvars, ni, alive>>

\* run: the head of `for _ in range(int(self.interval))` and the test of
\* __exit_now that opens its body
TickCheck ==
  /\ pc = "Sleeping"
  /\ IF tick < interval
     THEN /\ pc' = IF exit_now THEN "ShuttingDown" ELSE "InSleep"
          /\ flagAtTop' = FALSE
     ELSE /\ pc' = "Sampling"
          /\ flagAtTop' = exit_now
  /\ DropCycle
  /\ UNCHANGED <<scheduler, interval, exit_now, exited, tick, exc, restored,
                 sigState>>
  /\ UNCHANGED <<dvars, uvars, osvars>>

\* run: time.sleep(1) returns
SleepReturns ==
  /\ pc = "InSleep"
  /\ tick' = tick + 1
  /\ pc' = "Sleeping"
  /\ UNCHANGED <<scheduler, interval, exit_now, exited, load, stats, cmdlog, exc,
                 restored, sigState, flagAtTop, sampled, snaps, policyRuns>>
  /\ UNCHANGED <<dvars, uvars, osvars>>

\* run, finally: stats = self.load_stats(); self.none_scheduler(*stats);
\* self.__exited = True.  An exception of load_stats leaves run.
RestoreOn(L) ==
  /\ pc = "ShuttingDown"
  /\ inflight = {}
  /\ \/ \E l \in L :
          LET r == none_scheduler(load_stats(l))
          IN  /\ cmdlog' = r.cmds
              /\ inflight' = inflight \cup SeqToSet(r.cmds)
              /\ restored' = TRUE
              /\ exited' = TRUE
              /\ pc' = "Stopped"
              /\ ProcessesExit(l)
     \/ /\ pc' = "Crashed"
        /\ cmdlog' = <<>>
        /\ UNCHANGED <<inflight, restored, exited, ni, alive>>
  /\ stats' = NoStats
  /\ UNCHANGED <<scheduler, interval, exit_now, load, tick, exc, sigState,
                 flagAtTop, sampled, snaps, policyRuns>>
  /\ UNCHANGED <<dvars, uvars>>

Restore == RestoreOn(ListingsNow)

RunStep ==
  \/ RunBegins
  \/ SampleLoad
  \/ CollectStats
  \/ RunScheduler
  \/ TickCheck
  \/ SleepReturns
  \/ Restore

\* ---------------------------------------------- disk.py: the disk monitor
Digits == {"0", "1", "2", "3", "4", "5", "6", "7", "8", "9"}
Units == {"k", "K", "m", "M", "g", "G"}

DigitVal(c) ==
  CASE c = "0" -> 0 [] c = "1" -> 1 [] c = "2" -> 2 [] c = "3" -> 3
    [] c = "4" -> 4 [] c = "5" -> 5 [] c = "6" -> 6 [] c = "7" -> 7
    [] c = "8" -> 8 [] OTHER -> 9

\* the user_quota strings a command line may carry, as sequences of characters
QuotaStrings ==
  {<<"2", "0", "G">>, <<"2", "k">>, <<"1", "M">>, <<"1", "g">>,
   <<"3", "K">>, <<"7", "m">>,
   <<"5">>, <<"G">>, <<"1", ".", "5", "G">>}

\* the last index of the run of digits that starts at i
RECURSIVE RunEnd(_, _)
RunEnd(s, i) ==
  IF i < Len(s) /\ s[i + 1] \in Digits THEN RunEnd(s, i + 1) ELSE i

\* re.findall(r'(\d+)([kKmMgG]{1})', s): the starts of its matches
MatchStarts(s) ==
  {i \in 1..Len(s) :
     /\ s[i] \in Digits
     /\ RunEnd(s, i) < Len(s)
     /\ s[RunEnd(s, i) + 1] \in Units}

\* int(num) for the digits s[i..j]
RECURSIVE IntOf(_, _, _)
IntOf(s, i, j) ==
  IF j < i THEN 0 ELSE IntOf(s, i, j - 1) * 10 + DigitVal(s[j])

\* quota_bytes with the units taken as powers of 1000
QuotaBytesDecimal(s) ==
  LET i == MinOf(MatchStarts(s))
      j == RunEnd(s, i)
      num == IntOf(s, i, j)
      unit == s[j + 1]
  IN  IF unit \in {"m", "M"} THEN num * 1000
      ELSE IF unit \in {"g", "G"} THEN num * (1000 * 1000)
      ELSE num

\* DiskUsageMonitor.__init__: quota_bytes of a user_quota that matches
QuotaBytes(s) ==
  LET i == MinOf(MatchStarts(s))
      j == RunEnd(s, i)
      num == IntOf(s, i, j)
      unit == s[j + 1]
  IN  IF unit \in {"m", "M"} THEN num * 1024
      ELSE IF unit \in {"g", "G"} THEN num * (1024 * 1024)
      ELSE num

\* DiskUsageMonitor.is_critical_process
is_critical_process(p) ==
  IF Command(p) \in {"systemd", "(sd-pam)", "sshd", "sh", "zsh", "bash", "tmux",
                     "vim", "nano", "ssh-agent", "ssh", "rm", "mv", "ls", "cd",
                     "autossh"}
  THEN TRUE
  ELSE FALSE

\* user_name.startswith('.')
StartsWithDot(name) == name \in {".cache"}

\* the names load_usage measures
MeasuredNames == {u \in SeqToSet(HomeOrder) : ~StartsWithDot(u)}

\* kill_quota_exceeded_processes: `usage <= self.quota_bytes: continue`
WithinQuota(usage) == usage <= quota_bytes

\* the processes kill_quota_exceeded_processes kills for user u in listing l
KillTargets(l, u) ==
  {p \in DOMAIN process_states(l) : Owner(p) = u /\ ~is_critical_process(p)}

kill_cmd(p) == [kind |-> "kill", target |-> p, pri |-> 0]

RECURSIVE KillCmds(_)
KillCmds(pids) ==
  IF pids = <<>> THEN <<>>
  ELSE <<kill_cmd(Head(pids))>> \o KillCmds(Tail(pids))

RECURSIVE MeasuredOrder(_)
MeasuredOrder(names) ==
  IF names = <<>> THEN <<>>
  ELSE (IF StartsWithDot(Head(names)) THEN <<>> ELSE <<Head(names)>>)
         \o MeasuredOrder(Tail(names))

\* DiskUsageMonitor.__init__: findall(...)[0] of no match raises IndexError
DConstruct ==
  \E q \in QuotaStrings, n \in 0..MaxInterval :
    /\ dpc = "New"
    /\ IF MatchStarts(q) = {}
       THEN /\ dpc' = "StartupFailed"
            /\ UNCHANGED <<quota_bytes, quota, dinterval>>
       ELSE /\ dpc' = "Idle"
            /\ quota_bytes' = QuotaBytes(q)
            /\ quota' = q
            /\ dinterval' = n
    /\ UNCHANGED <<disk_usage, dtodo, downed, dtick, dexit_now, dexited, dexc,
                   killlog>>
    /\ UNCHANGED <<gvars, uvars, osvars>>

\* Daemon.start() calls run(): the while loop is entered
DRunBegins ==
  /\ dpc = "Idle"
  /\ dpc' = "Checking"
  /\ UNCHANGED <<quota_bytes, quota, dinterval, disk_usage, dtodo, downed, dtick,
                 dexit_now, dexited, dexc, killlog>>
  /\ UNCHANGED <<gvars, uvars, osvars>>

\* DiskUsageMonitor.__exit, the SIGTERM handler
DSigterm ==
  /\ dpc \in {"Checking", "Killing", "Sleeping", "InSleep"}
  /\ ~dexit_now
  /\ dexit_now' = TRUE
  /\ UNCHANGED <<dpc, quota_bytes, quota, dinterval, disk_usage, dtodo, downed, dtick,
                 dexited, dexc, killlog>>
  /\ UNCHANGED <<gvars, uvars, osvars>>

\* the usage du may report for a home directory
Usages == {quota_bytes, quota_bytes + 1}

\* run: disk_usage = self.load_usage()
DLoadUsage ==
  /\ dpc = "Checking"
  /\ \/ \E usage \in [MeasuredNames -> Usages] :
          /\ disk_usage' = usage
          /\ dtodo' = MeasuredOrder(HomeOrder)
          /\ dpc' = "Killing"
          /\ UNCHANGED <<dexc, dexited>>
     \/ /\ dexc' = "collection"     \* du's output does not parse
        /\ dexited' = TRUE
        /\ dpc' = "Stopped"
        /\ UNCHANGED <<disk_usage, dtodo>>
  /\ UNCHANGED <<quota_bytes, quota, dinterval, downed, dtick, dexit_now, killlog>>
  /\ UNCHANGED <<gvars, uvars, osvars>>

\* kill_quota_exceeded_processes: one turn of `for user, usage in ...`
DKillUser ==
  /\ dpc = "Killing"
  /\ dtodo # <<>>
  /\ LET u == Head(dtodo)
     IN  IF WithinQuota(disk_usage[u])
         THEN /\ dtodo' = Tail(dtodo)
              /\ UNCHANGED <<dpc, downed, killlog, dexc, dexited, osvars>>
         ELSE /\ inflight = {}
              /\ \/ \E l \in ListingsNow :
                      LET cmds == KillCmds(SortedSeq(KillTargets(l, u)))
                      IN  /\ killlog' = killlog \o cmds
                          /\ inflight' = inflight \cup SeqToSet(cmds)
                          /\ downed' = downed \cup
                               {p \in Pids : l[p].inps /\ Owner(p) = u}
                          /\ ProcessesExit(l)
                          /\ dtodo' = Tail(dtodo)
                          /\ UNCHANGED <<dpc, dexc, dexited>>
                 \/ /\ dexc' = "collection"   \* a listing does not parse
                    /\ dexited' = TRUE
                    /\ dpc' = "Stopped"
                    /\ UNCHANGED <<dtodo, downed, killlog, osvars>>
  /\ UNCHANGED <<quota_bytes, quota, dinterval, disk_usage, dtick, dexit_now>>
  /\ UNCHANGED <<gvars, uvars>>

\* run: kill_quota_exceeded_processes has returned; the sleep loop is entered
DKillDone ==
  /\ dpc = "Killing"
  /\ dtodo = <<>>
  /\ dpc' = "Sleeping"
  /\ dtick' = 0
  /\ UNCHANGED <<quota_bytes, quota, dinterval, disk_usage, dtodo, downed, dexit_now,
                 dexited, dexc, killlog>>
  /\ UNCHANGED <<gvars, uvars, osvars>>

\* run: the head of `for _ in range(int(self.interval))` and the test of
\* __exit_now that opens its body; `return` runs the finally clause
DTickCheck ==
  /\ dpc = "Sleeping"
  /\ IF dtick < dinterval
     THEN IF dexit_now
          THEN /\ dpc' = "Stopped"
               /\ dexited' = TRUE
          ELSE /\ dpc' = "InSleep"
               /\ dexited' = dexited
     ELSE /\ dpc' = "Checking"
          /\ dexited' = dexited
  /\ disk_usage' = NoStats
  /\ downed' = {}
  /\ killlog' = <<>>
  /\ UNCHANGED <<quota_bytes, quota, dinterval, dtodo, dtick, dexit_now, dexc>>
  /\ UNCHANGED <<gvars, uvars, osvars>>

\* run: time.sleep(1) returns
DSleepReturns ==
  /\ dpc = "InSleep"
  /\ dtick' = dtick + 1
  /\ dpc' = "Sleeping"
  /\ UNCHANGED <<quota_bytes, quota, dinterval, disk_usage, dtodo, downed, dexit_now,
                 dexited, dexc, killlog>>
  /\ UNCHANGED <<gvars, uvars, osvars>>

DRunStep ==
  \/ DRunBegins
  \/ DLoadUsage
  \/ DKillUser
  \/ DKillDone
  \/ DTickCheck
  \/ DSleepReturns

DiskNext ==
  \/ DConstruct
  \/ DSigterm
  \/ DRunStep
  \/ CommandCompletes

\* the disk monitor alone (it is a daemon of its own)
DiskSpec == Init /\ [][DiskNext]_vars

Next ==
  \/ Construct
  \/ Sigterm
  \/ RunStep
  \/ CommandCompletes

Spec == Init /\ [][Next]_vars

\* The governor on a host where all processes are busy or all are quiet at
\* each collection (two of the listings of ListingsNow): its behaviours are
\* behaviours of Spec.  The governor's thread and the commands it launched
\* keep running.
SteadyRows ==
  {[cpu |-> 5,  mem |-> 20, inps |-> TRUE],
   [cpu |-> 40, mem |-> 45, inps |-> TRUE]}

SteadyListings ==
  {l \in ListingsNow : \E r \in SteadyRows : \A p \in Pids : l[p] = r}

SteadyCollectStats == CollectStatsOn(SteadyListings)

SteadyRestore == RestoreOn(SteadyListings)

SteadyRunStep ==
  \/ RunBegins
  \/ SampleLoad
  \/ SteadyCollectStats
  \/ RunScheduler
  \/ TickCheck
  \/ SleepReturns
  \/ SteadyRestore

SteadyNext ==
  \/ Construct
  \/ Sigterm
  \/ SteadyRunStep
  \/ CommandCompletes

SteadyFairSpec ==
  /\ Init
  /\ [][SteadyNext]_vars
  /\ WF_vars(SteadyRunStep)
  /\ WF_vars(CommandCompletes)

\* a host on which one of the two daemons is started
EitherNext ==
  \/ dpc = "New" /\ Next
  \/ pc = "New" /\ DiskNext

EitherSpec == Init /\ [][EitherNext]_vars

\* ------------------------------------- one busy cycle on a many-core host
\* rows of top on a host with many cores, where %CPU goes beyond 100
WideRows ==
  {[cpu |-> 5,    mem |-> 20, inps |-> TRUE],
   [cpu |-> 10,   mem |-> 20, inps |-> TRUE],
   [cpu |-> 40,   mem |-> 20, inps |-> TRUE],
   [cpu |-> 490,  mem |-> 20, inps |-> TRUE],
   [cpu |-> 590,  mem |-> 45, inps |-> TRUE],
   [cpu |-> 1490, mem |-> 20, inps |-> TRUE]}

WideListings ==
  {l \in [Pids -> WideRows] : \A p \in Pids : p \notin alive => ~l[p].inps}

\* the governor has been constructed with one of the four schedulers and its
\* first cycle has sampled a load that is not below cpu_intervene
PolicyInit ==
  /\ OsInit /\ MonitorIdle /\ UtilsIdle
  /\ pc = "Deciding"
  /\ scheduler \in SchedulerNames
  /\ interval = 1
  /\ exit_now = FALSE
  /\ exited = FALSE
  /\ load \in {l \in Loads : ~LoadBelowIntervene(l)}
  /\ stats = NoStats
  /\ tick = 0
  /\ cmdlog = <<>>
  /\ exc = "none"
  /\ restored = FALSE
  /\ sigState = "none"
  /\ flagAtTop = FALSE
  /\ sampled = TRUE
  /\ snaps = 0
  /\ policyRuns = 0

PolicyCollectStats == CollectStatsOn(WideListings)

PolicyNext ==
  \/ PolicyCollectStats
  \/ RunScheduler
  \/ CommandCompletes

PolicySpec == PolicyInit /\ [][PolicyNext]_vars

\* ------------------------------------------------- utils.py on its own
\* the calls of build_rescaler(src_min, src_max, tar_min, tar_max)(x) with
\* src_min <= x <= src_max and tar_min <= tar_max
RescalerCalls ==
  {[fn |-> "build_rescaler", src_min |-> a, src_max |-> b, tar_min |-> c,
    tar_max |-> d, x |-> x] :
     a \in 0..MaxArg, b \in 0..MaxArg, c \in 0..MaxArg, d \in 0..MaxArg,
     x \in 0..MaxArg}

ValidRescalerCalls ==
  {c \in RescalerCalls :
     c.src_min <= c.x /\ c.x <= c.src_max /\ c.tar_min <= c.tar_max}

\* the calls of round_by(x, round_step)
RoundByCalls ==
  {[fn |-> "round_by", x |-> x, round_step |-> k] :
     x \in 0..MaxX, k \in 1..MaxStep}

UtilsInit ==
  /\ OsInit /\ GovernorIdle /\ MonitorIdle
  /\ call \in ValidRescalerCalls \cup RoundByCalls
  /\ ret = <<>>

\* build_rescaler(...)(x) returns
CallRescaler ==
  /\ call.fn = "build_rescaler"
  /\ ret = <<>>
  /\ ret' = <<rescaler(call.src_min, call.src_max, call.tar_min, call.tar_max,
                       call.x)>>
  /\ UNCHANGED <<call, gvars, dvars, osvars>>

\* round_by(x, round_step) returns
CallRoundBy ==
  /\ call.fn = "round_by"
  /\ ret = <<>>
  /\ ret' = <<round_by(call.x, 1, call.round_step)>>
  /\ UNCHANGED <<call, gvars, dvars, osvars>>

UtilsNext ==
  \/ CallRescaler
  \/ CallRoundBy

UtilsSpec == UtilsInit /\ [][UtilsNext]_vars

\* ------------------------------------------------------------- properties
\* a governor with one of the four schedulers and an interval of a second or
\* more
WellConfigured == scheduler \in SchedulerNames /\ interval >= 1

\* C1: every way run ends, by the shutdown flag or by an exception of a
\* cycle, has completed the restore pass (a fresh snapshot, then the reset
\* of every niceness to 0); stated for a well configured governor.
C1_EveryExitRestores ==
  (WellConfigured /\ pc \in {"Stopped", "Crashed"}) => restored

\* C2: once the governor has stopped and its commands have finished, every
\* process that still exists has niceness 0 again, whatever the governor did
\* to it in earlier cycles (every niceness is 0 before the governor starts);
\* stated for a well configured governor.
C2_StoppedAllNeutral ==
  (WellConfigured /\ pc = "Stopped" /\ inflight = {}) =>
    \A p \in alive : ni[p] = 0

\* C3: a termination signal received in any state of the loop, for any
\* interval, eventually leads the loop out of its cycles, to Stopped (a run
\* that the exception of its restore pass ends counts as ended here, so that
\* what is checked is that the flag is seen).
C3_SignalEndsLoop ==
  exit_now ~> (pc \in {"Stopped", "Crashed"})

\* C4: a shutdown flag set while the loop sleeps (during a time.sleep(1)) is
\* followed by ShuttingDown; the loop starts no other
\* Sampling/Deciding/Enforcing cycle after it.
C4_NoCycleAfterSignalInSleep ==
  sigState = "InSleep" => pc \notin {"Sampling", "Deciding", "Enforcing"}

\* C5: the flag is polled at the top of each cycle: in a cycle that began
\* with the flag set no load is sampled, no snapshot is collected and the
\* configured policy is not run.
C5_FlagAtTopSkipsCycle ==
  (WellConfigured /\ flagAtTop) => (~sampled /\ snaps = 0 /\ policyRuns = 0)

\* C6: a cycle whose sampled load is below cpu_intervene goes from Sampling
\* to Sleeping with no snapshot, no policy run and no renice; a cycle whose
\* load is at or above it has run the policy exactly once, on one snapshot,
\* when it reaches Sleeping.
C6_IdleSkipsPolicy ==
  /\ pc \in {"Deciding", "Enforcing"} => (sampled /\ load >= cpu_intervene)
  /\ (pc = "Sleeping" /\ sampled) =>
       IF load < cpu_intervene
       THEN snaps = 0 /\ policyRuns = 0 /\ cmdlog = <<>>
       ELSE snaps = 1 /\ policyRuns = 1

\* C6 witness: an idle cycle has reached Sleeping after an earlier cycle
\* had changed a niceness.
C6_Witness ==
  /\ pc = "Sleeping" /\ sampled /\ load < cpu_intervene
  /\ \E p \in alive : ni[p] # 0

\* C7: a collection failure in a cycle skips that cycle only: the step that
\* raises it leads to Sleeping (or to the next cycle), never out of the loop.
C7_CollectionFailureKeepsLoop ==
  [][(WellConfigured /\ exc # "collection" /\ exc' = "collection")
       => pc' \in {"Sleeping", "Sampling"}]_vars

\* C8: a governor that was constructed (and so may run) has one of the four
\* scheduler strategies; any other name fails the construction.
C8_OnlyKnownSchedulersStart ==
  pc \notin {"New", "StartupFailed"} => scheduler \in SchedulerNames

\* the summed memory percentage of user u in the snapshot
MemSum(u) ==
  LET mine == {q \in DOMAIN stats : Owner(q) = u}
  IN  SumOver([q \in DOMAIN stats |-> stats[q].mem], mine)

\* the positions of the log that carry command c
Issued(c) == {i \in DOMAIN cmdlog : cmdlog[i] = c}

C10_OverQuotaAllKilled ==
  dpc \in {"Killing", "Sleeping"} =>
    \A p \in downed :
      ~is_critical_process(p) => kill_cmd(p) \in SeqToSet(killlog)

\* C12: for src_min <= x <= src_max and tar_min <= tar_max the value that
\* build_rescaler(src_min, src_max, tar_min, tar_max)(x) returns lies in
\* [tar_min, tar_max]; for src_min < src_max it is tar_min at x = src_min and
\* tar_max at x = src_max, and for src_min = src_max it is 0.
C12_RescalerInRange ==
  (call.fn = "build_rescaler" /\ ret # <<>>) =>
    LET r == ret[1]
    IN  /\ call.tar_min * r.den <= r.num
        /\ r.num <= call.tar_max * r.den
        /\ call.src_min < call.src_max =>
             /\ call.x = call.src_min => r.num = call.tar_min * r.den
             /\ call.x = call.src_max => r.num = call.tar_max * r.den
        /\ call.src_min = call.src_max => r.num = 0

\* the distance between two integers
Dist(a, b) == IF a < b THEN b - a ELSE a - b

\* C15: round_by(x, step), for x >= 0, is the multiple of step nearest to x,
\* the even multiple when x is halfway between two multiples;
\* round_by(165, 50) = 150, round_by(175, 50) = 200, and the result is 0
\* when x is at most half of step.
C15_RoundByNearestEven ==
  (call.fn = "round_by" /\ ret # <<>>) =>
    LET x == call.x
        k == call.round_step
        r == ret[1]
    IN  /\ r % k = 0
        /\ 2 * Dist(x, r) <= k
        /\ 2 * Dist(x, r) = k => (r \div k) % 2 = 0
        /\ (x = 165 /\ k = 50) => r = 150
        /\ (x = 175 /\ k = 50) => r = 200
        /\ 2 * x <= k => r = 0

\* C15 witness: round_by(175, 50), halfway between 150 and 200, has returned
\* 200.
C15_Witness ==
  /\ call = [fn |-> "round_by", x |-> 175, round_step |-> 50]
  /\ ret = <<200>>

\* the priorities of the renice-by-pid commands issued for pid p
PidPris(p) ==
  {cmdlog[i].pri : i \in {j \in DOMAIN cmdlog :
                            cmdlog[j].kind = "pid" /\ cmdlog[j].target = p}}

\* C11: every renice command that the fair-share, RAM penalty, hybrid and
\* reset policies issue carries a priority in 0..19, and on a non-empty
\* snapshot every raw priority is at least 1 (min_user_processes as a
\* numerator over min_user_processes) and at most the largest raw priority.
C11_PrioritiesInRange ==
  /\ \A i \in DOMAIN cmdlog : cmdlog[i].pri \in 0..19
  /\ (pc = "Enforcing" /\ DOMAIN stats # {}) =>
       \A p \in DOMAIN stats :
         /\ raw_priority(stats, p) >= min_user_processes(stats)
         /\ raw_priority(stats, p) <=
              MaxOf({raw_priority(stats, q) : q \in DOMAIN stats})

\* C11 witness: the hybrid scheduler has run on a snapshot with a process
\* weight of 200 and has issued priority 19 and priority 0 by pid, and a
\* penalty by uid.
C11_Witness ==
  /\ scheduler = "cpu_ram_hybrid_scheduler" /\ pc = "Sleeping"
  /\ \E p \in DOMAIN stats : process_ni(stats, p) = 200 /\ PidPris(p) = {19}
  /\ \E p \in DOMAIN stats : PidPris(p) = {0}
  /\ \E i \in DOMAIN cmdlog : cmdlog[i].kind = "uid"

\* all users of the snapshot have the same number of processes
EqualCounts ==
  \A u \in StatUsers(stats), v \in StatUsers(stats) :
    user_processes_cnt(stats, u) = user_processes_cnt(stats, v)

ScenarioAB ==
  /\ DOMAIN stats = {1, 2, 3}
  /\ stats[1].cpu = 10 /\ stats[2].cpu = 10 /\ stats[3].cpu = 40
  /\ \A p \in DOMAIN stats : stats[p].mem = 20

\* C14: on that snapshot, under the hybrid scheduler: min_user_processes is
\* 1, alice's user weight is 2 and bob's is 1, the renice commands carry
\* exactly two distinct niceness values, bob's process has a niceness that
\* is at most that of each of alice's, and there is no renice by user.
C14_ScenarioAB ==
  (/\ scheduler = "cpu_ram_hybrid_scheduler"
   /\ pc = "Sleeping" /\ policyRuns = 1
   /\ ScenarioAB)
  =>
  /\ min_user_processes(stats) = 1
  /\ user_processes_cnt(stats, "alice") = 2 * min_user_processes(stats)
  /\ user_processes_cnt(stats, "bob") = 1 * min_user_processes(stats)
  /\ Cardinality({cmdlog[i].pri : i \in DOMAIN cmdlog}) = 2
  /\ \A b \in PidPris(3), a \in PidPris(1) \cup PidPris(2) : b <= a
  /\ \A p \in {1, 2, 3} : PidPris(p) # {}
  /\ \A i \in DOMAIN cmdlog : cmdlog[i].kind = "pid"

\* C14 witness: the hybrid scheduler has run on that snapshot and issued 19
\* for alice's processes and 0 for bob's.
C14_Witness ==
  /\ scheduler = "cpu_ram_hybrid_scheduler"
  /\ pc = "Sleeping" /\ policyRuns = 1
  /\ ScenarioAB
  /\ cmdlog = <<renice_pid(1, 19), renice_pid(2, 19), renice_pid(3, 0)>>

\* C16: under the hybrid scheduler, once all the commands of the cycle have
\* finished, every process of a user of the snapshot whose summed memory
\* exceeds ram_intervene has niceness 19, in whatever order the commands
\* finish.
C16_PenaltyOverridesFairShare ==
  (/\ scheduler = "cpu_ram_hybrid_scheduler" /\ interval >= 1
   /\ pc = "Sleeping" /\ policyRuns = 1
   /\ inflight = {})
  =>
  \A p \in alive :
    (Owner(p) \in StatUsers(stats) /\ MemSum(Owner(p)) > ram_intervene) =>
      ni[p] = 19

\* command c is aimed at processes of home-directory users only
AimedAtHomeUsers(c) ==
  IF c.kind = "uid"
  THEN /\ \E u \in HomeDirs : get_uid(u) = c.target
       /\ \A p \in Pids : get_uid(Owner(p)) = c.target => Owner(p) \in HomeDirs
  ELSE Owner(c.target) \in HomeDirs

\* C17: every renice of the governor, in a cycle or in the restore pass,
\* targets a process or uid of a user with a home directory; every kill of
\* the disk monitor targets a process whose owner is a home-directory name
\* that does not start with a dot; the niceness of a process of any other
\* user is never changed.
C17_OnlyHomeUsersTargeted ==
  /\ \A i \in DOMAIN cmdlog : AimedAtHomeUsers(cmdlog[i])
  /\ \A c \in inflight : AimedAtHomeUsers(c)
  /\ \A i \in DOMAIN killlog :
       /\ killlog[i].kind = "kill"
       /\ Owner(killlog[i].target) \in HomeDirs
       /\ Owner(killlog[i].target) \notin {".cache"}
  /\ \A p \in Pids : Owner(p) \notin HomeDirs => ni[p] = 0

\* C17 witness: a cycle of the governor has changed the niceness of a
\* process of a home user while a process of the user daemon, who has no
\* home directory, exists.
C17_Witness ==
  /\ pc = "Sleeping" /\ policyRuns = 1 /\ inflight = {}
  /\ cmdlog # <<>>
  /\ \E p \in alive : Owner(p) = "daemon"
  /\ \E p \in alive : Owner(p) \in HomeDirs /\ ni[p] = 19

\* the multiplier of a unit letter
UnitFactor(c) ==
  IF c \in {"k", "K"} THEN 1
  ELSE IF c \in {"m", "M"} THEN 1024
  ELSE 1024 * 1024

\* C18: a disk monitor that was constructed has a quota string with a digit
\* followed by a unit letter (any other string fails the construction), and
\* for a string of digits and one unit letter quota_bytes is the value for
\* k/K, the value * 1024 for m/M and the value * 1024^2 for g/G.
C18_QuotaConversion ==
  dpc \notin {"New", "StartupFailed"} =>
    /\ \E i \in 1..(Len(quota) - 1) :
         quota[i] \in Digits /\ quota[i + 1] \in Units
    /\ (\A i \in 1..(Len(quota) - 1) : quota[i] \in Digits) =>
         quota_bytes =
           IntOf(quota, 1, Len(quota) - 1) * UnitFactor(quota[Len(quota)])
    /\ quota = <<"2", "0", "G">> => quota_bytes = 20971520
    /\ quota = <<"1", "g">> => quota_bytes = 1048576
    /\ quota = <<"1", "M">> => quota_bytes = 1024
    /\ quota = <<"7", "m">> => quota_bytes = 7168
    /\ quota = <<"2", "k">> => quota_bytes = 2
    /\ quota = <<"3", "K">> => quota_bytes = 3

\* C18 witness: a monitor constructed with '20G' is running with 20 * 1024^2.
C18_Witness ==
  /\ dpc = "Checking"
  /\ quota = <<"2", "0", "G">>
  /\ quota_bytes = 20971520

\* C19: a cycle at a load not below cpu_intervene whose snapshot has no
\* process of a home user issues no renice and goes on to Sleeping, under
\* each of the four schedulers.
C19_EmptySnapshotKeepsLoop ==
  (/\ WellConfigured
   /\ policyRuns = 1
   /\ DOMAIN stats = {}
   /\ pc \notin {"Stopped", "Crashed"})
  =>
  (pc = "Sleeping" /\ cmdlog = <<>> /\ exc = "none")

\* C20: every sample the collector returns has its pid in the ps listing
\* (the process exists), carries the owner of that listing as its user and
\* has cpu >= 10; so for every process the fair-share scheduler weighs, the
\* summed cpu of its user is at least its own cpu, which is above 0.
C20_SamplesValid ==
  /\ pc = "Deciding" =>
       \A l \in ListingsNow :
         LET ps == process_states(l)
         IN  \A p \in DOMAIN ps :
               l[p].inps /\ ps[p].user = Owner(p) /\ ps[p].cpu >= 10
  /\ pc = "Enforcing" => \A p \in DOMAIN stats : p \in alive
  /\ \A p \in DOMAIN stats :
       /\ stats[p].user = Owner(p)
       /\ stats[p].cpu >= 10
       /\ SumOver([q \in DOMAIN stats |-> stats[q].cpu],
                  {q \in DOMAIN stats : stats[q].user = stats[p].user})
            >= stats[p].cpu

\* C20 witness: the fair-share scheduler is about to weigh a snapshot with
\* two processes of one user, while a listed process below 10% cpu and one
\* that ps does not list have been left out.
C20_Witness ==
  /\ pc = "Enforcing"
  /\ scheduler = "user_cpu_fair_scheduler"
  /\ DOMAIN stats = {1, 2}
  /\ 3 \in alive
  /\ 4 \notin alive
====
